---- MODULE Spec2Model ----
(***************************************************************************)
(* Model of the Pokemon collection service (src/src/index.ts): a Hono app  *)
(* over three Prisma/PostgreSQL tables (User, Pokemon, CaughtPokemon), a   *)
(* JWT gate on /protected/*, and handlers that are sequences of awaited    *)
(* storage calls.  Every storage call is one atomic step; a handler is one *)
(* action per awaited call, and the gate is a step of its own before the   *)
(* handler, so that requests and the clock interleave between them.        *)
(*                                                                         *)
(* Spec        the ledger behind the gate (list, catch, rename, release)   *)
(*             from two signed-in accounts with valid tokens               *)
(* SpecGate    the gate in front of the ledger, with every presentable     *)
(*             token and the clock passing the expiry                      *)
(* SpecAuth    signup and signin from empty storage                        *)
(* SpecToken   signin, the clock around one token lifetime, and the gate   *)
(* SpecCatalog two requests in flight among catch, lookup and manual       *)
(*             insert                                                      *)
(* SpecEdit    catch and list while catalog entries are updated or deleted *)
(* SpecE2E     one client from empty storage                               *)
(***************************************************************************)
EXTENDS Integers, Sequences, FiniteSets, TLC

\* ------------------------------------------------------------------ bounds
MaxUserSeq == 2
MaxPokemonSeq == 2
MaxCaughtSeq == 2
MaxTokens == 2

\* ------------------------------------------------------- program constants
TTL == 60 * 20
Secret == "mySecretKey"

\* --------------------------------------------------------------- input sets
\* the requests that can be in flight together
Procs == {1, 2}
Emails == {"a@x.com", "b@x.com"}
Passwords == {"pw1", "pw2"}
Salts == {"salt1"}
Names == {"pikachu", "25"}
Types == {"electric", "normal"}
Heights == {4}
Nicknames == {"Sparky"}
Undefined == "undefined"
NoHeight == 0 - 1
NullNickname == "NULL"
NoToken == [sub |-> 0, exp |-> 0, iat |-> 0, key |-> "none"]

VARIABLES users, pokemon, caught, userSeq, pokemonSeq, caughtSeq, now, tokens, req, last

vars == <<users, pokemon, caught, userSeq, pokemonSeq, caughtSeq, now, tokens, req, last>>
db == <<users, pokemon, caught, userSeq, pokemonSeq, caughtSeq>>

\* ------------------------------------------------------------ password hash
\* Bun.password.hash(password, {algorithm: "bcrypt", cost: 4}): a salted one-way
\* value; Bun.password.verify recomputes with the salt stored in the hash.
PasswordHash(password, salt) == [alg |-> "bcrypt", cost |-> 4, salt |-> salt, digest |-> <<salt, password>>]
\* faulty variant: every password is accepted
PasswordVerifyAny(password, hash) == TRUE

PasswordVerify(password, hash) == hash.alg = "bcrypt" /\ hash.digest = <<hash.salt, password>>

\* ------------------------------------------------------------------- tokens
\* sign(payload, secret) of jsonwebtoken: HS256 over the payload, iat added.
Sign(payload, secret, t) == [sub |-> payload.sub, exp |-> payload.exp, iat |-> t, key |-> secret]
\* faulty variant: a payload that expires an hour after it is issued
SigninPayloadHour(user, t) == [sub |-> user.id, exp |-> t + 60 * 60]

\* payload built by POST /signin at clock t (seconds)
SigninPayload(user, t) == [sub |-> user.id, exp |-> t + TTL]

\* faulty variant: the middleware without the expiry check
JwtVerifyNoExpiry(token, t) ==
  IF token = NoToken THEN "no authorization header"
  ELSE IF t < token.iat THEN "issued in the future"
  ELSE IF token.key # Secret THEN "signature mismatched"
  ELSE "ok"

\* hono/jwt middleware with secret 'mySecretKey' at clock t: no header, then the
\* expiry check, the issued-at check and the signature check.
JwtVerify(token, t) ==
  IF token = NoToken THEN "no authorization header"
  ELSE IF token.exp <= t THEN "expired"
  ELSE IF t < token.iat THEN "issued in the future"
  ELSE IF token.key # Secret THEN "signature mismatched"
  ELSE "ok"

\* tokens a client can present: none, one it was issued, or one it signed itself
\* with a key that is not the server's
Forged == {[sub |-> u.id, exp |-> now + TTL, iat |-> now, key |-> "wrongKey"] : u \in users}
Presentable == {NoToken} \cup tokens \cup Forged

\* ------------------------------------------------------------------ storage
\* faulty variant: the insert without the unique index on email
UserCreateNoIndex(email, hash) ==
  [ok |-> TRUE, code |-> "", seq |-> userSeq + 1, id |-> userSeq + 1,
   rows |-> users \cup {[id |-> userSeq + 1, email |-> email, hashedPassword |-> hash]}]

\* prisma.user.create under the unique index User_email_key.  The SERIAL
\* sequence is advanced by a failed insert too.
UserCreate(email, hash) ==
  IF \E u \in users : u.email = email
  THEN [ok |-> FALSE, code |-> "P2002", rows |-> users, seq |-> userSeq + 1, id |-> 0]
  ELSE [ok |-> TRUE, code |-> "", seq |-> userSeq + 1, id |-> userSeq + 1,
        rows |-> users \cup {[id |-> userSeq + 1, email |-> email, hashedPassword |-> hash]}]

\* prisma.user.findUnique({where: {email}}): the set holding the row, or {}
UserFindUnique(email) == {u \in users : u.email = email}

\* prisma.pokemon.findUnique({where: {name}})
PokemonFindUnique(name) == {r \in pokemon : r.name = name}

\* faulty variant: the insert without the unique index on name
PokemonCreateNoIndex(name, type, height) ==
  IF type = Undefined \/ height = NoHeight
  THEN [ok |-> FALSE, code |-> "validation", rows |-> pokemon, seq |-> pokemonSeq, id |-> 0]
  ELSE [ok |-> TRUE, code |-> "", seq |-> pokemonSeq + 1, id |-> pokemonSeq + 1,
        rows |-> pokemon \cup {[id |-> pokemonSeq + 1, name |-> name, type |-> type, height |-> height]}]

\* prisma.pokemon.create: type and height are required columns, so a missing
\* argument is rejected by the client before any statement is sent; otherwise
\* the insert runs under the unique index Pokemon_name_key.
PokemonCreate(name, type, height) ==
  IF type = Undefined \/ height = NoHeight
  THEN [ok |-> FALSE, code |-> "validation", rows |-> pokemon, seq |-> pokemonSeq, id |-> 0]
  ELSE IF \E r \in pokemon : r.name = name
  THEN [ok |-> FALSE, code |-> "P2002", rows |-> pokemon, seq |-> pokemonSeq + 1, id |-> 0]
  ELSE [ok |-> TRUE, code |-> "", seq |-> pokemonSeq + 1, id |-> pokemonSeq + 1,
        rows |-> pokemon \cup {[id |-> pokemonSeq + 1, name |-> name, type |-> type, height |-> height]}]

\* faulty variant: the owner column filled from the wrong argument
CaughtCreateSwapped(userId, pokemonId, pokemonType) ==
  IF ~ (\E u \in users : u.id = pokemonId) \/ ~ (\E r \in pokemon : r.id = pokemonId)
  THEN [ok |-> FALSE, code |-> "P2003", rows |-> caught, seq |-> caughtSeq + 1, id |-> 0]
  ELSE [ok |-> TRUE, code |-> "", seq |-> caughtSeq + 1, id |-> caughtSeq + 1,
        rows |-> caught \cup {[id |-> caughtSeq + 1, userId |-> pokemonId, pokemonId |-> pokemonId,
                               nickname |-> NullNickname, pokemonType |-> pokemonType]}]

\* prisma.caughtPokemon.create under the two foreign keys (ON DELETE RESTRICT)
CaughtCreate(userId, pokemonId, pokemonType) ==
  IF ~ (\E u \in users : u.id = userId) \/ ~ (\E r \in pokemon : r.id = pokemonId)
  THEN [ok |-> FALSE, code |-> "P2003", rows |-> caught, seq |-> caughtSeq + 1, id |-> 0]
  ELSE [ok |-> TRUE, code |-> "", seq |-> caughtSeq + 1, id |-> caughtSeq + 1,
        rows |-> caught \cup {[id |-> caughtSeq + 1, userId |-> userId, pokemonId |-> pokemonId,
                               nickname |-> NullNickname, pokemonType |-> pokemonType]}]

\* faulty variant: the rows of every owner
CaughtFindManyAll(userId) ==
  {[id |-> r.id, userId |-> r.userId, pokemonId |-> r.pokemonId, nickname |-> r.nickname,
    pokemonType |-> r.pokemonType, pokemon |-> CHOOSE k \in pokemon : k.id = r.pokemonId]
     : r \in caught}

\* prisma.caughtPokemon.findMany({where: {userId}, include: {pokemon: true}})
CaughtFindMany(userId) ==
  {[id |-> r.id, userId |-> r.userId, pokemonId |-> r.pokemonId, nickname |-> r.nickname,
    pokemonType |-> r.pokemonType, pokemon |-> CHOOSE k \in pokemon : k.id = r.pokemonId]
     : r \in {x \in caught : x.userId = userId}}

\* faulty variant: the where-clause filtering on the id alone
CaughtWhereByIdAlone(id, userId) == {r \in caught : r.id = id}

\* the rows a where-clause {id, userId} selects
CaughtWhere(id, userId) == {r \in caught : r.id = id /\ r.userId = userId}

\* faulty variant: an update that rewrites the type column along with the nickname
CaughtUpdateManyRetyped(id, userId, nickname) ==
  [count |-> Cardinality(CaughtWhere(id, userId)),
   rows |-> {IF r \in CaughtWhere(id, userId)
             THEN [r EXCEPT !.nickname = nickname, !.pokemonType = nickname] ELSE r : r \in caught}]

\* faulty variant: an update that counts the rows with the id, whoever owns them
CaughtUpdateManyAnyOwner(id, userId, nickname) ==
  [count |-> Cardinality({r \in caught : r.id = id}),
   rows |-> {IF r \in CaughtWhere(id, userId) THEN [r EXCEPT !.nickname = nickname] ELSE r : r \in caught}]

\* prisma.caughtPokemon.updateMany({where: {id, userId}, data: {nickname}})
CaughtUpdateMany(id, userId, nickname) ==
  [count |-> Cardinality(CaughtWhere(id, userId)),
   rows |-> {IF r \in CaughtWhere(id, userId) THEN [r EXCEPT !.nickname = nickname] ELSE r : r \in caught}]

\* faulty variant: every record of the owner is deleted once the pair matches
CaughtDeleteManyOfOwner(id, userId) ==
  [count |-> Cardinality(CaughtWhere(id, userId)),
   rows |-> IF CaughtWhere(id, userId) = {} THEN caught
            ELSE {r \in caught : r.userId # userId}]

\* prisma.caughtPokemon.deleteMany({where: {id, userId}})
CaughtDeleteMany(id, userId) ==
  [count |-> Cardinality(CaughtWhere(id, userId)), rows |-> caught \ CaughtWhere(id, userId)]

\* ----------------------------------------------------------------- requests
\* A request in flight: the handler, the await it stands at, and the locals it
\* still reads after that await.
NoHash == [alg |-> "", cost |-> 0, salt |-> "", digest |-> <<>>]

Idle == [op |-> "idle", pc |-> "idle", sub |-> 0, email |-> "", password |-> "", hash |-> NoHash,
         name |-> "", type |-> "", height |-> 0, pid |-> 0, ptype |-> "", fname |-> "",
         id |-> 0, nickname |-> ""]

Response(op, sub, arg, status, message, data) ==
  [op |-> op, sub |-> sub, arg |-> arg, status |-> status, message |-> message, data |-> data]

NoResponse == Response("none", 0, 0, 0, "", {})

Init ==
  /\ users = {}
  /\ pokemon = {}
  /\ caught = {}
  /\ userSeq = 0
  /\ pokemonSeq = 0
  /\ caughtSeq = 0
  /\ now = 0
  /\ tokens = {}
  /\ req = [p \in Procs |-> Idle]
  /\ last = NoResponse

\* ------------------------------------------------------------------ clock
\* Date.now() in seconds; the clock only moves forward, to instant t.
Tick(t) ==
  /\ t > now
  /\ now' = t
  /\ UNCHANGED <<db, tokens, req, last>>

\* ----------------------------------------------------------- POST /signup
SignupHash(p, email, password, salt) ==
  /\ req[p].op = "idle"
  /\ req' = [req EXCEPT ![p] = [Idle EXCEPT !.op = "signup", !.pc = "create", !.email = email,
                                            !.hash = PasswordHash(password, salt)]]
  /\ UNCHANGED <<db, now, tokens, last>>

SignupCreate(p) ==
  /\ req[p].op = "signup" /\ req[p].pc = "create"
  /\ userSeq < MaxUserSeq
  /\ LET r == UserCreate(req[p].email, req[p].hash) IN
       /\ users' = r.rows
       /\ userSeq' = r.seq
       /\ last' = IF r.ok
                  THEN Response("signup", r.id, req[p].email, 200, req[p].email \o " created successfully", {})
                  ELSE IF r.code = "P2002"
                  THEN Response("signup", 0, req[p].email, 200, "Email already exists", {})
                  ELSE Response("signup", 0, req[p].email, 500, "Internal Server Error", {})
  /\ req' = [req EXCEPT ![p] = Idle]
  /\ UNCHANGED <<pokemon, caught, pokemonSeq, caughtSeq, now, tokens>>

\* ----------------------------------------------------------- POST /signin
\* Three steps, one per await: the account is read (findUnique), the password
\* is verified against the hash that was read, and the token is built and
\* signed.  Other requests and the clock move between them.
SigninFind(p, email, password) ==
  /\ req[p].op = "idle"
  /\ LET found == UserFindUnique(email) IN
       IF found = {}
       THEN /\ last' = Response("signin", 0, email, 404, "User not found", {})
            /\ UNCHANGED req
       ELSE LET user == CHOOSE u \in found : TRUE IN
            /\ req' = [req EXCEPT ![p] = [Idle EXCEPT !.op = "signin", !.pc = "verify",
                                           !.sub = user.id, !.email = email,
                                           !.password = password, !.hash = user.hashedPassword]]
            /\ UNCHANGED last
  /\ UNCHANGED <<db, now, tokens>>

SigninVerify(p) ==
  /\ req[p].op = "signin" /\ req[p].pc = "verify"
  /\ IF PasswordVerify(req[p].password, req[p].hash)
     THEN /\ req' = [req EXCEPT ![p] = [Idle EXCEPT !.op = "signin", !.pc = "sign",
                                           !.sub = req[p].sub, !.email = req[p].email]]
          /\ UNCHANGED last
     ELSE /\ req' = [req EXCEPT ![p] = Idle]
          /\ last' = Response("signin", 0, req[p].email, 401, "Unauthorized", {})
  /\ UNCHANGED <<db, now, tokens>>

\* The clock is read twice without an await between: by line 100 for exp and
\* inside sign() for iat; d is the number of seconds that begin between the
\* two reads.
ClockReads == {0, 1}

SigninSign(p, d) ==
  /\ req[p].op = "signin" /\ req[p].pc = "sign"
  /\ LET payload == SigninPayload([id |-> req[p].sub], now)
         token == Sign(payload, Secret, now + d) IN
       /\ Cardinality(tokens \cup {token}) <= MaxTokens
       /\ tokens' = tokens \cup {token}
       /\ last' = Response("signin", req[p].sub, req[p].email, 200, "Login successful", {token})
  /\ now' = now + d
  /\ req' = [req EXCEPT ![p] = Idle]
  /\ UNCHANGED db

\* ------------------------------------------------------- /protected/* gate
\* app.use("/protected/*", jwt({secret})): the handler runs only when the
\* middleware verified the token; otherwise the middleware answers 401.
GatePasses(token) == JwtVerify(token, now) = "ok"

\* the 401 of the middleware; its cause is the verification error it caught
Rejected(op, arg, cause) == Response(op, 0, arg, 401, "Unauthorized", {cause})

\* the requests under the protected prefix, with the path and body values their
\* handlers read
ListRequest ==
  [op |-> "list", name |-> "", type |-> "", height |-> 0, id |-> 0, nickname |-> ""]
CatchRequest(name, type, height) ==
  [op |-> "catch", name |-> name, type |-> type, height |-> height, id |-> 0, nickname |-> ""]
RenameRequest(id, nickname) ==
  [op |-> "rename", name |-> "", type |-> "", height |-> 0, id |-> id, nickname |-> nickname]
ReleaseRequest(id) ==
  [op |-> "release", name |-> "", type |-> "", height |-> 0, id |-> id, nickname |-> ""]

\* the value a response is filed under: the name of a catch, the id of a
\* rename or release
RequestArg(r) == IF r.op = "catch" THEN r.name ELSE r.id

\* the first awaited storage call of each protected handler
FirstCall(op) ==
  IF op = "list" THEN "findMany"
  ELSE IF op = "catch" THEN "findUnique"
  ELSE IF op = "rename" THEN "updateMany"
  ELSE "deleteMany"

\* The middleware verifies the token at the clock of its step.  When it passes,
\* the handler starts with jwtPayload.sub and stands at its first storage call
\* (reading the body and the path reads no shared state); the storage call is
\* a later step.
Gate(p, token, r) ==
  /\ req[p].op = "idle"
  /\ IF GatePasses(token)
     THEN /\ req' = [req EXCEPT ![p] = [Idle EXCEPT !.op = r.op, !.pc = FirstCall(r.op),
                                           !.sub = token.sub, !.name = r.name, !.type = r.type,
                                           !.height = r.height, !.id = r.id,
                                           !.nickname = r.nickname]]
          /\ UNCHANGED last
     ELSE /\ last' = Rejected(r.op, RequestArg(r), JwtVerify(token, now))
          /\ UNCHANGED req
  /\ UNCHANGED <<db, now, tokens>>

\* ------------------------------------------------- GET /protected/caught
\* what a list for the subject is answered from the current storage
ListResponse(sub) == Response("list", sub, 0, 200, "", CaughtFindMany(sub))

List(p) ==
  /\ req[p].op = "list" /\ req[p].pc = "findMany"
  /\ last' = ListResponse(req[p].sub)
  /\ req' = [req EXCEPT ![p] = Idle]
  /\ UNCHANGED <<db, now, tokens>>

\* ------------------------------------------------- POST /protected/catch
CatchFind(p) ==
  /\ req[p].op = "catch" /\ req[p].pc = "findUnique"
  /\ LET found == PokemonFindUnique(req[p].name) IN
       req' = [req EXCEPT ![p] =
                 IF found = {}
                 THEN [req[p] EXCEPT !.pc = "createPokemon"]
                 ELSE [Idle EXCEPT !.op = "catch", !.pc = "createCaught", !.sub = req[p].sub,
                                   !.name = req[p].name,
                                   !.pid = (CHOOSE r \in found : TRUE).id,
                                   !.ptype = (CHOOSE r \in found : TRUE).type]]
  /\ UNCHANGED <<db, now, tokens, last>>

CatchCreatePokemon(p) ==
  /\ req[p].op = "catch" /\ req[p].pc = "createPokemon"
  /\ pokemonSeq < MaxPokemonSeq
  /\ LET r == PokemonCreate(req[p].name, req[p].type, req[p].height) IN
       /\ pokemon' = r.rows
       /\ pokemonSeq' = r.seq
       /\ IF r.ok
          THEN /\ req' = [req EXCEPT ![p] = [Idle EXCEPT !.op = "catch", !.pc = "createCaught",
                                   !.sub = req[p].sub, !.name = req[p].name,
                                   !.pid = r.id, !.ptype = (CHOOSE k \in r.rows : k.id = r.id).type]]
               /\ UNCHANGED last
          ELSE /\ req' = [req EXCEPT ![p] = Idle]
               /\ last' = Response("catch", req[p].sub, req[p].name, 500, "Internal Server Error", {})
  /\ UNCHANGED <<users, caught, userSeq, caughtSeq, now, tokens>>

CatchCreateCaught(p) ==
  /\ req[p].op = "catch" /\ req[p].pc = "createCaught"
  /\ caughtSeq < MaxCaughtSeq
  /\ LET r == CaughtCreate(req[p].sub, req[p].pid, req[p].ptype) IN
       /\ caught' = r.rows
       /\ caughtSeq' = r.seq
       /\ last' = IF r.ok
                  THEN Response("catch", req[p].sub, req[p].name, 200, "Pokemon caught",
                                {c \in r.rows : c.id = r.id})
                  ELSE Response("catch", req[p].sub, req[p].name, 500, "Internal Server Error", {})
  /\ req' = [req EXCEPT ![p] = Idle]
  /\ UNCHANGED <<users, pokemon, userSeq, pokemonSeq, now, tokens>>

\* ------------------------------------------- PATCH /protected/update/:id
\* what a rename by the subject is answered from the current storage
RenameResponse(sub, id, nickname) ==
  LET r == CaughtUpdateMany(id, sub, nickname) IN
  IF r.count = 0
  THEN Response("rename", sub, id, 404, "Pokemon not found or not owned by user", {})
  ELSE Response("rename", sub, id, 200, "Pokemon updated", {[count |-> r.count]})

Rename(p) ==
  /\ req[p].op = "rename" /\ req[p].pc = "updateMany"
  /\ caught' = CaughtUpdateMany(req[p].id, req[p].sub, req[p].nickname).rows
  /\ last' = RenameResponse(req[p].sub, req[p].id, req[p].nickname)
  /\ req' = [req EXCEPT ![p] = Idle]
  /\ UNCHANGED <<users, pokemon, userSeq, pokemonSeq, caughtSeq, now, tokens>>

\* ------------------------------------------ DELETE /protected/delete/:id
\* what a release by the subject is answered: the count of deleteMany is not
\* read
ReleaseResponse(sub, id) == Response("release", sub, id, 200, "Pokemon released", {})

Release(p) ==
  /\ req[p].op = "release" /\ req[p].pc = "deleteMany"
  /\ caught' = CaughtDeleteMany(req[p].id, req[p].sub).rows
  /\ last' = ReleaseResponse(req[p].sub, req[p].id)
  /\ req' = [req EXCEPT ![p] = Idle]
  /\ UNCHANGED <<users, pokemon, userSeq, pokemonSeq, caughtSeq, now, tokens>>

\* ---------------------------------------------------- GET /pokemon/:name
\* The external catalog (pokeapi.co) answers a name or a national number with
\* the creature's data, whose name is the canonical one; any call can fail.
PokeApi(name) ==
  IF name \in {"pikachu", "25"}
  THEN {[name |-> "pikachu", types |-> <<"electric">>, height |-> 4]}
  ELSE {}

\* pokemonData.types.map(t => t.type.name).join(', ')
RECURSIVE JoinTypes(_)
JoinTypes(types) ==
  IF types = <<>> THEN ""
  ELSE IF Len(types) = 1 THEN Head(types)
  ELSE Head(types) \o ", " \o JoinTypes(Tail(types))

NotFound404(op, arg) == Response(op, 0, arg, 404, "Pokemon not found", {})
Internal500(op, sub, arg) == Response(op, sub, arg, 500, "Internal Server Error", {})

LookupFind(p, name) ==
  /\ req[p].op = "idle"
  /\ LET found == PokemonFindUnique(name) IN
       IF found = {}
       THEN /\ req' = [req EXCEPT ![p] = [Idle EXCEPT !.op = "lookup", !.pc = "fetch", !.name = name]]
            /\ UNCHANGED last
       ELSE /\ last' = Response("lookup", 0, name, 200, "", found)
            /\ UNCHANGED req
  /\ UNCHANGED <<db, now, tokens>>

\* faulty variant: a failed call leaves a placeholder entry under the requested name
LookupFetchPersisting(p, failed) ==
  /\ req[p].op = "lookup" /\ req[p].pc = "fetch"
  /\ IF failed \/ PokeApi(req[p].name) = {}
     THEN /\ req' = [req EXCEPT ![p] = Idle]
          /\ last' = NotFound404("lookup", req[p].name)
          /\ pokemon' = IF PokemonFindUnique(req[p].name) = {} /\ pokemonSeq < MaxPokemonSeq
                        THEN pokemon \cup {[id |-> pokemonSeq + 1, name |-> req[p].name,
                                             type |-> "", height |-> 0]}
                        ELSE pokemon
          /\ pokemonSeq' = IF pokemon' = pokemon THEN pokemonSeq ELSE pokemonSeq + 1
     ELSE LET pokemonData == CHOOSE d \in PokeApi(req[p].name) : TRUE IN
          /\ req' = [req EXCEPT ![p].pc = "create", ![p].fname = pokemonData.name,
                                ![p].type = JoinTypes(pokemonData.types),
                                ![p].height = pokemonData.height]
          /\ UNCHANGED <<last, pokemon, pokemonSeq>>
  /\ UNCHANGED <<users, caught, userSeq, caughtSeq, now, tokens>>

LookupFetch(p, failed) ==
  /\ req[p].op = "lookup" /\ req[p].pc = "fetch"
  /\ IF failed \/ PokeApi(req[p].name) = {}
     THEN /\ req' = [req EXCEPT ![p] = Idle]
          /\ last' = NotFound404("lookup", req[p].name)
     ELSE LET pokemonData == CHOOSE d \in PokeApi(req[p].name) : TRUE IN
          /\ req' = [req EXCEPT ![p].pc = "create", ![p].fname = pokemonData.name,
                                ![p].type = JoinTypes(pokemonData.types),
                                ![p].height = pokemonData.height]
          /\ UNCHANGED last
  /\ UNCHANGED <<db, now, tokens>>

LookupCreate(p) ==
  /\ req[p].op = "lookup" /\ req[p].pc = "create"
  /\ pokemonSeq < MaxPokemonSeq
  /\ LET r == PokemonCreate(req[p].fname, req[p].type, req[p].height) IN
       /\ pokemon' = r.rows
       /\ pokemonSeq' = r.seq
       /\ last' = IF r.ok
                  THEN Response("lookup", 0, req[p].name, 200, "", {k \in r.rows : k.id = r.id})
                  ELSE NotFound404("lookup", req[p].name)
  /\ req' = [req EXCEPT ![p] = Idle]
  /\ UNCHANGED <<users, caught, userSeq, caughtSeq, now, tokens>>

\* ---------------------------------------------------------- POST /pokemon
AddFind(p, name, type, height) ==
  /\ req[p].op = "idle"
  /\ IF PokemonFindUnique(name) # {}
     THEN /\ last' = Response("add", 0, name, 400, "Pokemon already exists", {})
          /\ UNCHANGED req
     ELSE /\ req' = [req EXCEPT ![p] = [Idle EXCEPT !.op = "add", !.pc = "create", !.name = name,
                                                   !.type = type, !.height = height]]
          /\ UNCHANGED last
  /\ UNCHANGED <<db, now, tokens>>

AddCreate(p) ==
  /\ req[p].op = "add" /\ req[p].pc = "create"
  /\ pokemonSeq < MaxPokemonSeq
  /\ LET r == PokemonCreate(req[p].name, req[p].type, req[p].height) IN
       /\ pokemon' = r.rows
       /\ pokemonSeq' = r.seq
       /\ last' = IF r.ok
                  THEN Response("add", 0, req[p].name, 200, "Pokemon added successfully",
                                {k \in r.rows : k.id = r.id})
                  ELSE Internal500("add", 0, req[p].name)
  /\ req' = [req EXCEPT ![p] = Idle]
  /\ UNCHANGED <<users, caught, userSeq, caughtSeq, now, tokens>>

\* ------------------------------------------------------ PATCH /pokemon/:id
\* prisma.pokemon.update({where: {id}, data}): an undefined field is left as it
\* is; P2025 when no row has the id, P2002 when the new name is taken.
PokemonUpdate(id, name, type, height) ==
  LET hit == {r \in pokemon : r.id = id} IN
  IF hit = {} THEN [ok |-> FALSE, code |-> "P2025", rows |-> pokemon, row |-> {}]
  ELSE IF name # Undefined /\ \E r \in pokemon : r.name = name /\ r.id # id
  THEN [ok |-> FALSE, code |-> "P2002", rows |-> pokemon, row |-> {}]
  ELSE LET old == CHOOSE r \in hit : TRUE
           new == [id |-> id,
                   name |-> IF name = Undefined THEN old.name ELSE name,
                   type |-> IF type = Undefined THEN old.type ELSE type,
                   height |-> IF height = NoHeight THEN old.height ELSE height] IN
       [ok |-> TRUE, code |-> "", rows |-> (pokemon \ hit) \cup {new}, row |-> {new}]

\* faulty variant: the new type is also written into the records of the entry
CatalogUpdateCascading(id, name, type, height) ==
  /\ LET r == PokemonUpdate(id, name, type, height) IN
       /\ pokemon' = r.rows
       /\ caught' = {IF c.pokemonId = id /\ r.ok /\ type # Undefined
                        THEN [c EXCEPT !.pokemonType = type] ELSE c : c \in caught}
       /\ last' = IF r.ok THEN Response("update", 0, id, 200, "Pokemon updated successfully", r.row)
                  ELSE IF r.code = "P2025" THEN NotFound404("update", id)
                  ELSE Internal500("update", 0, id)
  /\ UNCHANGED <<users, userSeq, pokemonSeq, caughtSeq, now, tokens, req>>

CatalogUpdate(id, name, type, height) ==
  /\ LET r == PokemonUpdate(id, name, type, height) IN
       /\ pokemon' = r.rows
       /\ last' = IF r.ok THEN Response("update", 0, id, 200, "Pokemon updated successfully", r.row)
                  ELSE IF r.code = "P2025" THEN NotFound404("update", id)
                  ELSE Internal500("update", 0, id)
  /\ UNCHANGED <<users, caught, userSeq, pokemonSeq, caughtSeq, now, tokens, req>>

\* -------------------------------------------------- DELETE /pokemon/:name
\* faulty variant: a delete that ignores the rows referencing the entry
PokemonDeleteNoRestrict(name) ==
  LET hit == {r \in pokemon : r.name = name} IN
  IF hit = {} THEN [ok |-> FALSE, code |-> "P2025", rows |-> pokemon, row |-> {}]
  ELSE [ok |-> TRUE, code |-> "", rows |-> pokemon \ hit, row |-> hit]

\* prisma.pokemon.delete({where: {name}}): P2025 when no row has the name, P2003
\* when a CaughtPokemon row references it (ON DELETE RESTRICT).
PokemonDelete(name) ==
  LET hit == {r \in pokemon : r.name = name} IN
  IF hit = {} THEN [ok |-> FALSE, code |-> "P2025", rows |-> pokemon, row |-> {}]
  ELSE IF \E c \in caught : \E r \in hit : c.pokemonId = r.id
  THEN [ok |-> FALSE, code |-> "P2003", rows |-> pokemon, row |-> {}]
  ELSE [ok |-> TRUE, code |-> "", rows |-> pokemon \ hit, row |-> hit]

CatalogDelete(name) ==
  /\ LET r == PokemonDelete(name) IN
       /\ pokemon' = r.rows
       /\ last' = IF r.ok THEN Response("delete", 0, name, 200, "Pokemon deleted successfully", r.row)
                  ELSE IF r.code = "P2025" THEN NotFound404("delete", name)
                  ELSE Internal500("delete", 0, name)
  /\ UNCHANGED <<users, caught, userSeq, pokemonSeq, caughtSeq, now, tokens, req>>

\* ===================================================== the specifications
RecordIds == 1 .. (MaxCaughtSeq + 1)

\* request bodies of catch and of the manual insert: type and height are
\* each present or absent
Bodies == {[type |-> "electric", height |-> 4], [type |-> "normal", height |-> 4],
           [type |-> Undefined, height |-> NoHeight], [type |-> "electric", height |-> NoHeight]}

\* the protected requests a client sends
CatchRequests == {CatchRequest("pikachu", b.type, b.height) : b \in Bodies}
RenameRequests == {RenameRequest(i, k) : i \in RecordIds, k \in Nicknames}
ReleaseRequests == {ReleaseRequest(i) : i \in RecordIds}
Requests == {ListRequest} \cup CatchRequests \cup RenameRequests \cup ReleaseRequests

\* Two registered accounts, each signed in at clock 0; nothing caught yet.
AccountA == [id |-> 1, email |-> "a@x.com", hashedPassword |-> PasswordHash("pw1", "salt1")]
AccountB == [id |-> 2, email |-> "b@x.com", hashedPassword |-> PasswordHash("pw2", "salt1")]
TokenA == Sign(SigninPayload(AccountA, 0), Secret, 0)
TokenB == Sign(SigninPayload(AccountB, 0), Secret, 0)

InitSignedIn ==
  /\ users = {AccountA, AccountB}
  /\ userSeq = 2
  /\ pokemon = {}
  /\ caught = {}
  /\ pokemonSeq = 0
  /\ caughtSeq = 0
  /\ now = 0
  /\ tokens = {TokenA, TokenB}
  /\ req = [p \in Procs |-> Idle]
  /\ last = Response("signin", 2, "b@x.com", 200, "Login successful", {TokenB})

\* Two registered accounts, nobody signed in yet.
InitRegistered ==
  /\ users = {AccountA, AccountB}
  /\ userSeq = 2
  /\ pokemon = {}
  /\ caught = {}
  /\ pokemonSeq = 0
  /\ caughtSeq = 0
  /\ now = 0
  /\ tokens = {}
  /\ req = [p \in Procs |-> Idle]
  /\ last = Response("signup", 2, "b@x.com", 200, "b@x.com created successfully", {})

\* The clock is observed at the instants around one token lifetime.
ClockPoints == {0, 1, TTL - 1, TTL, TTL + 1}

\* ---- Spec: the collection ledger behind the gate, from two signed-in
\* accounts whose tokens are valid; two requests in flight, catches in one
Next ==
  \/ \E t \in tokens, r \in CatchRequests : Gate(1, t, r)
  \/ \E p \in Procs, t \in tokens, r \in {ListRequest} \cup RenameRequests \cup ReleaseRequests :
        Gate(p, t, r)
  \/ \E p \in Procs : List(p)
  \/ CatchFind(1)
  \/ CatchCreatePokemon(1)
  \/ CatchCreateCaught(1)
  \/ \E p \in Procs : Rename(p)
  \/ \E p \in Procs : Release(p)

Spec == InitSignedIn /\ [][Next]_vars

\* ---- SpecGate: the gate in front of the ledger: every token a client can
\* present, the clock passing the expiry while requests are in flight
NextGate ==
  \/ Tick(TTL)
  \/ \E t \in Presentable, r \in {CatchRequest("pikachu", "electric", 4), ListRequest} : Gate(1, t, r)
  \/ \E t \in Presentable, r \in RenameRequests \cup ReleaseRequests : Gate(2, t, r)
  \/ List(1)
  \/ CatchFind(1)
  \/ CatchCreatePokemon(1)
  \/ CatchCreateCaught(1)
  \/ Rename(2)
  \/ Release(2)

SpecGate == InitSignedIn /\ [][NextGate]_vars

\* ---- SpecAuth: accounts and signin from empty storage
NextAuth ==
  \/ \E p \in Procs, e \in Emails, w \in Passwords, s \in Salts : SignupHash(p, e, w, s)
  \/ \E p \in Procs : SignupCreate(p)
  \/ \E p \in Procs, e \in Emails, w \in Passwords : SigninFind(p, e, w)
  \/ \E p \in Procs : SigninVerify(p)
  \/ \E p \in Procs, d \in ClockReads : SigninSign(p, d)

SpecAuth == Init /\ [][NextAuth]_vars

\* ---- SpecToken: tokens from their issue to their expiry, at the gate
NextToken ==
  \/ \E t \in ClockPoints : Tick(t)
  \/ \E p \in Procs, e \in Emails, w \in Passwords : SigninFind(p, e, w)
  \/ \E p \in Procs : SigninVerify(p)
  \/ \E p \in Procs, d \in ClockReads : SigninSign(p, d)
  \/ \E p \in Procs, t \in Presentable : Gate(p, t, ListRequest)
  \/ \E p \in Procs : List(p)

SpecToken == InitRegistered /\ [][NextToken]_vars

\* ---- SpecCatalog: the catalog under concurrent catches, lookups and edits
NextCatalog ==
  \/ \E p \in Procs, t \in tokens, r \in CatchRequests : Gate(p, t, r)
  \/ \E p \in Procs : CatchFind(p)
  \/ \E p \in Procs : CatchCreatePokemon(p)
  \/ \E p \in Procs : CatchCreateCaught(p)
  \/ \E p \in Procs, n \in Names : LookupFind(p, n)
  \/ \E p \in Procs, f \in BOOLEAN : LookupFetch(p, f)
  \/ \E p \in Procs : LookupCreate(p)
  \/ \E p \in Procs, b \in Bodies : AddFind(p, "pikachu", b.type, b.height)
  \/ \E p \in Procs : AddCreate(p)

SpecCatalog == InitSignedIn /\ [][NextCatalog]_vars

\* ---- SpecEdit: catches and listings while the catalog is edited
NextEdit ==
  \/ \E t \in tokens, r \in CatchRequests \cup {ListRequest} : Gate(1, t, r)
  \/ CatchFind(1)
  \/ CatchCreatePokemon(1)
  \/ CatchCreateCaught(1)
  \/ List(1)
  \/ \E i \in 1 .. MaxPokemonSeq, n \in Names \cup {Undefined}, ty \in Types \cup {Undefined} :
        CatalogUpdate(i, n, ty, NoHeight)
  \/ \E n \in Names : CatalogDelete(n)

SpecEdit == InitSignedIn /\ [][NextEdit]_vars

\* ---- SpecE2E: one client from empty storage: it registers a@x.com, signs in,
\* and catches, lists, renames and releases with the token it was issued, one
\* request after the other
NextE2E ==
  \/ SignupHash(1, "a@x.com", "pw1", "salt1")
  \/ SignupCreate(1)
  \/ SigninFind(1, "a@x.com", "pw1")
  \/ SigninVerify(1)
  \/ \E d \in ClockReads : SigninSign(1, d)
  \/ \E t \in tokens, r \in CatchRequests \cup {ListRequest} : Gate(1, t, r)
  \/ \E t \in tokens, i \in RecordIds : Gate(1, t, RenameRequest(i, "Sparky"))
  \/ \E t \in tokens, i \in RecordIds : Gate(1, t, ReleaseRequest(i))
  \/ CatchFind(1)
  \/ CatchCreatePokemon(1)
  \/ CatchCreateCaught(1)
  \/ List(1)
  \/ Rename(1)
  \/ Release(1)

SpecE2E == Init /\ [][NextE2E]_vars

\* ================================================================ claims
\* a token the gate must reject: absent, not signed with the server's secret,
\* or at or past its expiry
BadToken(t) == t = NoToken \/ t.key # "mySecretKey" \/ t.exp <= now
GoodToken(t) == ~ BadToken(t)
Owned(i, s) == \E R \in caught : R.id = i /\ R.userId = s

\* ---- C1: a Caught Record is listed only to its owner, and every step that
\* removes or changes a Caught Record R is a rename or release answered 200 to
\* a request whose verified subject is R's owner and whose id is R's id; so a
\* rename or release with another account's token leaves R as it is.
C1_ListOnlyOwn ==
  (last.op = "list" /\ last.status = 200) => \A row \in last.data : row.userId = last.sub

C1_OnlyOwnerChanges ==
  \A R \in caught : R \notin caught' =>
     /\ last'.op \in {"rename", "release"}
     /\ last'.status = 200
     /\ last'.sub = R.userId
     /\ last'.arg = R.id

C1_OwnerIsolation == [] C1_ListOnlyOwn /\ [][C1_OnlyOwnerChanges]_vars

\* account B was answered for a rename of a record that account A owns
C1_Witness ==
  /\ last.op = "rename" /\ last.status = 404
  /\ \E R \in caught : R.id = last.arg /\ R.userId # last.sub /\ last.sub \in {u.id : u \in users}

\* ---- C2: a list, catch, rename or release request whose token is absent,
\* wrongly signed or expired when the gate verifies it is answered 401 and
\* changes neither storage nor the requests in flight: its handler never
\* starts.  In every state the gate refuses every such token; a step that
\* answers a protected request 401 leaves storage, clock, tokens and requests
\* as they were; a handler starts only for the subject of a token the gate
\* accepts, and storage changes only in a step of a handler that was started.
C2_GateRefuses ==
  \A t \in Presentable : BadToken(t) =>
     /\ ~ GatePasses(t)
     /\ \A r \in Requests : Rejected(r.op, RequestArg(r), JwtVerify(t, now)).status = 401

C2_Answered401 ==
  /\ last'.op \in {"list", "catch", "rename", "release"}
  /\ last'.status = 401
  /\ \/ last.op # last'.op
     \/ last.status # 401
     \/ last.arg # last'.arg
     \/ last.data # last'.data

C2_Refused == C2_Answered401 => UNCHANGED <<db, now, tokens, req>>

C2_HandlerStarts ==
  \A p \in Procs :
    (req[p].op = "idle" /\ req'[p].op \in {"list", "catch", "rename", "release"}) =>
       /\ \E t \in Presentable : GoodToken(t) /\ t.sub = req'[p].sub
       /\ UNCHANGED <<db, now, tokens, last>>

C2_StorageByHandlers ==
  db' # db => \E p \in Procs : /\ req[p].op \in {"catch", "rename", "release"}
                              /\ req'[p].pc # req[p].pc

C2_RejectedBeforeHandler ==
  [] C2_GateRefuses /\ [][C2_Refused /\ C2_HandlerStarts /\ C2_StorageByHandlers]_vars

\* a release of an existing record was refused once every issued token expired
C2_Witness ==
  /\ last.op = "release" /\ last.status = 401 /\ last.data = {"expired"}
  /\ \E R \in caught : R.id = last.arg
  /\ tokens # {} /\ \A t \in tokens : t.exp <= now

\* ---- C3: a token issued by signin carries an existing account as its subject
\* and expires 20 minutes after the clock value signin read when it built the
\* payload; its issued-at is that value or, when a second began before sign()
\* read the clock, the next one.  At every clock value before the expiry the
\* gate accepts the token, at the expiry and after it the gate refuses it as
\* expired although it is signed with the server's secret.  A list starts only
\* for the subject of an issued token that is not expired at the gate.
C3_Issue ==
  \A tok \in tokens' \ tokens :
    /\ tok.exp = now + 20 * 60
    /\ tok.iat \in {now, now + 1} /\ tok.iat = now'
    /\ tok.key = "mySecretKey"
    /\ \E u \in users : u.id = tok.sub

C3_Verify ==
  /\ \A tok \in tokens :
       /\ now < tok.exp => JwtVerify(tok, now) = "ok"
       /\ now >= tok.exp => JwtVerify(tok, now) = "expired"
  /\ (last.op = "list" /\ last.status = 200) => \E tok \in tokens : tok.sub = last.sub
  /\ (last.op = "list" /\ last.data = {"expired"}) => \E tok \in tokens : tok.exp <= now

C3_ListStarts ==
  \A p \in Procs :
    (req[p].op = "idle" /\ req'[p].op = "list") =>
       \E tok \in tokens : tok.sub = req'[p].sub /\ now < tok.exp

C3_TokenLifetime == [] C3_Verify /\ [][C3_Issue /\ C3_ListStarts]_vars

\* a list was refused as expired at the very second its token expired
C3_Witness ==
  /\ last.op = "list" /\ last.status = 401 /\ last.data = {"expired"}
  /\ Cardinality(tokens) = 1 /\ \A tok \in tokens : tok.exp = now

\* ---- C4: no two accounts share an email, and a signup whose insert finds its
\* email already stored answers "Email already exists" and leaves the accounts
\* as they are.
C4_UniqueEmail == \A u, v \in users : u.email = v.email => u = v

C4_ConflictStep ==
  \A p \in Procs :
    (req[p].op = "signup" /\ req'[p].op = "idle" /\ \E u \in users : u.email = req[p].email) =>
       (users' = users /\ last'.op = "signup" /\ last'.message = "Email already exists")

C4_OneAccountPerEmail == [] C4_UniqueEmail /\ [][C4_ConflictStep]_vars

\* the second of two signups with one email was answered with the conflict
C4_Witness ==
  /\ last.op = "signup" /\ last.message = "Email already exists"
  /\ Cardinality({u \in users : u.email = last.arg}) = 1

\* ---- C5: a catch whose name has no Catalog Entry creates exactly one Catalog
\* Entry and then exactly one Caught Record referencing it, and a catch whose
\* name has one creates exactly one Caught Record referencing that entry and
\* no Catalog Entry, whatever type and height the body carries.
C5_CatchStep ==
  \A p \in Procs :
    /\ (req[p].op = "catch" /\ req[p].pc = "createPokemon" /\ req'[p] # req[p]) =>
          /\ Cardinality(pokemon') = Cardinality(pokemon) + 1
          /\ caught' = caught
          /\ req'[p].pc = "createCaught"
    /\ (req[p].op = "catch" /\ req[p].pc = "createCaught" /\ req'[p].op = "idle") =>
          /\ pokemon' = pokemon
          /\ Cardinality(caught') = Cardinality(caught) + 1
          /\ \E c \in caught' \ caught : \E k \in pokemon : k.name = req[p].name /\ c.pokemonId = k.id

C5_CatchCreatesOnce == [][C5_CatchStep]_vars

\* ---- C6: the catalog never holds two Catalog Entries with the same name.
C6_UniqueName == \A a, b \in pokemon : a.name = b.name => a = b

\* a second insert of a name was refused: one entry, two sequence values used
C6_Witness ==
  /\ Cardinality({k \in pokemon : k.name = "pikachu"}) = 1
  /\ Cardinality(pokemon) = 1
  /\ pokemonSeq = 2

\* ---- C7: a catch that carries type and height and whose catalog insert finds
\* the name taken by a concurrent request goes on to create its Caught Record
\* for the entry that now exists.
C7_LoserStep ==
  \A p \in Procs :
    (/\ req[p].op = "catch" /\ req[p].pc = "createPokemon" /\ req'[p] # req[p]
     /\ req[p].type # Undefined /\ req[p].height # NoHeight
     /\ PokemonFindUnique(req[p].name) # {}) =>
       /\ req'[p].pc = "createCaught"
       /\ req'[p].pid \in {k.id : k \in PokemonFindUnique(req[p].name)}

C7_LoserProceeds == [][C7_LoserStep]_vars

\* ---- C8: a rename answered 200 replaces one Caught Record of the subject by
\* a record with the same id, owner, catalog reference and type, and leaves
\* every other Caught Record, every account and every Catalog Entry as it was.
C8_RenameStep ==
  \A p \in Procs :
    (req[p].op = "rename" /\ req'[p].op = "idle" /\ last'.status = 200) =>
       /\ last'.op = "rename" /\ last'.sub = req[p].sub /\ last'.arg = req[p].id
       /\ UNCHANGED <<users, pokemon, userSeq, pokemonSeq, caughtSeq>>
       /\ \E R \in caught : \E N \in caught' :
            /\ R.id = req[p].id /\ R.userId = req[p].sub
            /\ N.id = R.id /\ N.userId = R.userId /\ N.pokemonId = R.pokemonId
            /\ N.pokemonType = R.pokemonType /\ N.nickname = req[p].nickname
            /\ caught' \ {N} = caught \ {R}

C8_RenameChangesOnlyNickname == [][C8_RenameStep]_vars

\* a record was renamed while another record exists
C8_Witness ==
  /\ last.op = "rename" /\ last.status = 200
  /\ \E R \in caught : R.id = last.arg /\ R.nickname = "Sparky"
  /\ \E R \in caught : R.id # last.arg /\ R.nickname = NullNickname

\* ---- C9: a rename with a verified token whose (id, subject) pair matches no
\* Caught Record is answered 404 and changes nothing in storage.
C9_RenameStep ==
  \A p \in Procs :
    (req[p].op = "rename" /\ req'[p].op = "idle" /\ ~ Owned(req[p].id, req[p].sub)) =>
       /\ last'.op = "rename" /\ last'.sub = req[p].sub /\ last'.arg = req[p].id
       /\ last'.status = 404
       /\ last'.message = "Pokemon not found or not owned by user"
       /\ UNCHANGED db

C9_RenameNoMatch == [][C9_RenameStep]_vars

\* a rename of an id that no record has was answered 404
C9_Witness ==
  /\ last.op = "rename" /\ last.status = 404
  /\ caught # {} /\ \A R \in caught : R.id # last.arg

\* ---- C10: a release with a verified token whose (id, subject) pair matches
\* no Caught Record is answered 404 as the rename is.
C10_ReleaseStep ==
  \A p \in Procs :
    (req[p].op = "release" /\ req'[p].op = "idle" /\ ~ Owned(req[p].id, req[p].sub)) =>
       last'.status = 404

C10_ReleaseNoMatch == [][C10_ReleaseStep]_vars

\* ---- C11: across every step that creates, changes or removes Caught Records,
\* a subject whose request passed the gate is answered the same, for a rename
\* and for a release, for every id it owns no record of before and after the
\* step: the answer for an id another account owns is the answer for an id
\* nobody owns.
C11_SameAnswer ==
  caught' # caught =>
    \A u \in users, i \in RecordIds :
      (~ Owned(i, u.id) /\ ~ Owned(i, u.id)') =>
         /\ ReleaseResponse(u.id, i)' = ReleaseResponse(u.id, i)
         /\ \A k \in Nicknames : RenameResponse(u.id, i, k)' = RenameResponse(u.id, i, k)

C11_NoExistenceLeak == [][C11_SameAnswer]_vars

\* a release of a record of another account was answered and the record stays
C11_Witness ==
  /\ last.op = "release" /\ last.status = 200
  /\ \E R \in caught : R.id = last.arg /\ R.userId # last.sub
  /\ last.sub \in {u.id : u \in users}

\* ---- C12: a handler starts only for the subject of an issued, unexpired,
\* server-signed token and keeps that subject to its end; every Caught Record
\* that appears is owned by the subject of the catch that created it; and
\* every list, catch, rename or release that is not refused is answered for
\* the subject of an issued token.
C12_CatchStarts ==
  \A p \in Procs :
    (req[p].op = "idle" /\ req'[p].op \in {"list", "catch", "rename", "release"}) =>
       \E t \in tokens : GoodToken(t) /\ req'[p].sub = t.sub

C12_KeepsSubject ==
  \A p \in Procs :
    (req[p].op \in {"list", "catch", "rename", "release"} /\ req'[p].op = req[p].op) =>
       req'[p].sub = req[p].sub

C12_RecordOwner ==
  \A c \in caught' :
    (~ \E o \in caught : o.id = c.id) =>
       \E p \in Procs : /\ req[p].op = "catch" /\ req[p].pc = "createCaught"
                        /\ req'[p].op = "idle"
                        /\ c.userId = req[p].sub
                        /\ last'.op = "catch" /\ last'.status = 200 /\ last'.sub = c.userId

C12_ActsForSubject ==
  (last.op \in {"list", "rename", "release", "catch"} /\ last.status # 401) =>
     \E t \in tokens : t.sub = last.sub /\ t.key = "mySecretKey"

C12_OwnerIsTokenSubject ==
  [] C12_ActsForSubject /\ [][C12_CatchStarts /\ C12_KeepsSubject /\ C12_RecordOwner]_vars

\* each of the two accounts caught a record with its own token
C12_Witness ==
  /\ last.op = "catch" /\ last.status = 200
  /\ \E c \in caught : c.userId = 1
  /\ \E c \in caught : c.userId = 2 /\ c \in last.data

\* ---- C13: from empty storage, once a@x.com is registered and signed in: when
\* its first catch of "pikachu" has been answered, its list is exactly one
\* record, of the entry named "pikachu" and with no nickname; when a rename to
\* "Sparky" has been answered 200, its list shows that record with nickname
\* "Sparky"; when the release of its only record has been answered, its list is
\* empty.
C13_Step ==
  \A t \in tokens :
    /\ (req[1].op = "catch" /\ req[1].sub = t.sub /\ req'[1].op = "idle" /\ caughtSeq = 0) =>
          /\ Cardinality(ListResponse(t.sub)'.data) = 1
          /\ \A row \in ListResponse(t.sub)'.data :
                row.pokemon.name = "pikachu" /\ row.nickname = NullNickname
    /\ (last'.op = "rename" /\ last'.status = 200 /\ last'.sub = t.sub) =>
          \E row \in ListResponse(t.sub)'.data : row.id = last'.arg /\ row.nickname = "Sparky"
    /\ (last'.op = "release" /\ last'.sub = t.sub /\ Cardinality(caught) = 1
        /\ last'.arg \in {c.id : c \in caught}) =>
          ListResponse(t.sub)'.data = {}

C13_EndToEnd == [][C13_Step]_vars

\* ---- C14: a catch reads the type of the catalog entry and stores that value in
\* the record it creates; from then on the record keeps it: no step, and in
\* particular no catalog update of the entry's type, changes the type held by
\* an existing record.
C14_Reads ==
  \A p \in Procs :
    (req'[p].pc = "createCaught" /\ req[p].pc # "createCaught") =>
       \E e \in pokemon' : e.id = req'[p].pid /\ e.type = req'[p].ptype

C14_Stores ==
  \A d \in caught' :
    (~ \E c \in caught : c.id = d.id) =>
       \E p \in Procs : /\ req[p].pc = "createCaught"
                        /\ d.pokemonId = req[p].pid /\ d.pokemonType = req[p].ptype

C14_Keeps ==
  \A c \in caught : \A d \in caught' : d.id = c.id => d.pokemonType = c.pokemonType

C14_TypeSnapshot == [][C14_Reads /\ C14_Stores /\ C14_Keeps]_vars

\* an update has changed the type of an entry that a record was caught from
C14_Witness ==
  /\ last.op = "update" /\ last.status = 200
  /\ \E c \in caught : \E e \in pokemon :
        e.id = c.pokemonId /\ e.id = last.arg /\ e.type # c.pokemonType

\* ---- C15: once a lookup of a requested name has been answered with an entry,
\* the catalog holds an entry under that requested name, so that every later
\* lookup of it is a local hit that makes no external call.
C15_LaterLookupsLocal ==
  (last.op = "lookup" /\ last.status = 200) => PokemonFindUnique(last.arg) # {}

\* ---- C16: when a lookup has missed locally and its call to the external
\* catalog fails or is answered not-found, the lookup ends with 404 "Pokemon
\* not found" and storage is unchanged: no catalog entry is persisted.
C16_FailedFetch ==
  \A p \in Procs :
    (req[p].op = "lookup" /\ req[p].pc = "fetch" /\ req'[p].pc # "fetch" /\ req'[p].pc # "create") =>
       /\ last' = NotFound404("lookup", req[p].name)
       /\ UNCHANGED db

C16_LookupFailure == [][C16_FailedFetch]_vars

\* a lookup ended 404 after a failed external call, on a catalog still untouched
C16_Witness ==
  /\ last.op = "lookup" /\ last.status = 404
  /\ pokemon = {} /\ pokemonSeq = 0
  /\ \A p \in Procs : req[p].op = "idle"

\* ---- C17: a signin goes on to the verification only when its email belongs to
\* a stored account, and an unknown email is answered 404; it goes on to the
\* signing only when the password is the one the account's hash was computed
\* from, and a wrong password is answered 401; a token is issued only by the
\* signing and its subject is the id of the account that was read; a signin
\* answered 404 or 401 issues no token, and no signin changes stored state.
C17_Find ==
  /\ \A p \in Procs :
       (req[p].op = "idle" /\ req'[p].op = "signin") =>
          /\ req'[p].pc = "verify"
          /\ \E u \in users : /\ u.email = req'[p].email /\ u.id = req'[p].sub
                              /\ u.hashedPassword = req'[p].hash
          /\ UNCHANGED <<db, tokens, last>>
  /\ \A p \in Procs, e \in Emails, w \in Passwords :
       (last'.op = "signin" /\ UserFindUnique(e) = {} /\ SigninFind(p, e, w)) =>
          (last'.status = 404 /\ last'.arg = e)
  /\ (last'.op = "signin" /\ last'.status = 404 /\ req' = req /\ now' = now) =>
          /\ ~ \E u \in users : u.email = last'.arg
          /\ last'.data = {}
          /\ UNCHANGED <<db, tokens>>

C17_Verify ==
  \A p \in Procs :
    (req[p].op = "signin" /\ req[p].pc = "verify" /\ req'[p].pc # "verify") =>
       LET matches == \E s \in Salts : req[p].hash = PasswordHash(req[p].password, s) IN
       /\ matches => (req'[p].op = "signin" /\ req'[p].pc = "sign" /\ req'[p].sub = req[p].sub
                      /\ req'[p].email = req[p].email /\ UNCHANGED last)
       /\ ~ matches => (/\ req'[p].op = "idle"
                        /\ last' = Response("signin", 0, req[p].email, 401, "Unauthorized", {}))
       /\ UNCHANGED <<db, tokens>>

C17_Sign ==
  /\ tokens' # tokens =>
       \E p \in Procs :
          /\ req[p].op = "signin" /\ req[p].pc = "sign" /\ req'[p].op = "idle"
          /\ last'.op = "signin" /\ last'.status = 200 /\ last'.sub = req[p].sub
          /\ Cardinality(last'.data) = 1
          /\ tokens' = tokens \cup last'.data
          /\ \A tok \in last'.data : tok.sub = req[p].sub
          /\ \E u \in users : u.id = req[p].sub /\ u.email = req[p].email
  /\ \A p \in Procs :
       (req[p].op = "signin" /\ req'[p].op = "idle") => UNCHANGED db

C17_SigninOutcomes == [][C17_Find /\ C17_Verify /\ C17_Sign]_vars

\* a wrong password was refused for an account that had already signed in
C17_Witness ==
  /\ last.op = "signin" /\ last.status = 401
  /\ \E u \in users : u.email = last.arg /\ \E tok \in tokens : tok.sub = u.id

\* ---- C18: a manual insert whose name has a Catalog Entry when it is answered is
\* answered 400 "Pokemon already exists" and leaves the catalog as it is, also
\* when the entry was created by another request between the insert's
\* existence check and its write.
C18_AddStep ==
  /\ \A p \in Procs :
       (req[p].op = "add" /\ req'[p].op = "idle" /\ PokemonFindUnique(req[p].name) # {}) =>
          /\ last' = Response("add", 0, req[p].name, 400, "Pokemon already exists", {})
          /\ pokemon' = pokemon
  /\ (last'.op = "add" /\ PokemonFindUnique(last'.arg) # {} /\ req' = req) =>
          /\ last'.status = 400
          /\ pokemon' = pokemon

C18_AddExisting == [][C18_AddStep]_vars

\* ---- C19: a list is answered 200 with exactly the Caught Records that its
\* subject owns in storage at the step of its findMany, each with the nickname and type it
\* holds then and with its Catalog Entry: every record the subject caught and
\* has not released, no record of another account, and the effect of every
\* catch, rename and release completed before.
C19_ListStep ==
  \A p \in Procs :
    (req[p].op = "list" /\ req'[p].op = "idle") =>
       /\ last'.op = "list" /\ last'.status = 200 /\ last'.sub = req[p].sub
       /\ \A c \in caught :
            c.userId = req[p].sub =>
               \E row \in last'.data :
                  /\ row.id = c.id /\ row.userId = c.userId /\ row.pokemonId = c.pokemonId
                  /\ row.nickname = c.nickname /\ row.pokemonType = c.pokemonType
                  /\ row.pokemon \in pokemon /\ row.pokemon.id = c.pokemonId
       /\ \A row \in last'.data : \E c \in caught : c.id = row.id /\ c.userId = req[p].sub
       /\ Cardinality(last'.data) = Cardinality({c \in caught : c.userId = req[p].sub})

C19_ListExact == [][C19_ListStep]_vars

\* a list carried the subject's renamed record while another account held one
C19_Witness ==
  /\ last.op = "list" /\ last.status = 200
  /\ \E row \in last.data : row.nickname = "Sparky"
  /\ \E c \in caught : c.userId # last.sub
  /\ Cardinality(last.data) = 1 /\ Cardinality(caught) = 2

\* ---- C20: every Caught Record references a stored account and a stored Catalog
\* Entry; a catalog delete of an entry that a Caught Record references is
\* refused and removes nothing; and no step, whatever the interleaving of
\* catches and catalog deletes, creates or leaves a record without its entry.
C20_References ==
  \A c \in caught :
    /\ \E u \in users : u.id = c.userId
    /\ \E e \in pokemon : e.id = c.pokemonId

C20_DeleteStep ==
  (/\ last'.op = "delete"
   /\ \E n \in Names : CatalogDelete(n)
   /\ \E e \in pokemon : e.name = last'.arg /\ \E c \in caught : c.pokemonId = e.id) =>
     /\ last'.status # 200
     /\ UNCHANGED db

C20_ReferentialIntegrity == [] C20_References /\ [][C20_DeleteStep]_vars

\* a delete of an entry with a Caught Record was refused
C20_Witness ==
  /\ last.op = "delete" /\ last.status = 500
  /\ \E e \in pokemon : e.name = last.arg /\ \E c \in caught : c.pokemonId = e.id

\* ---- C21: a release of record id r by its owner removes the Caught Record with
\* id r and nothing else: every other Caught Record, every account and every
\* Catalog Entry, the one r referenced included, is as before; and the id is
\* never used again: ids of records are at most the sequence value, the
\* sequence never decreases, and a record that appears has an id above the
\* sequence value before the step, so that no later list can carry r.
C21_ReleaseStep ==
  \A p \in Procs :
    (req[p].op = "release" /\ req'[p].op = "idle" /\ Owned(req[p].id, req[p].sub)) =>
       /\ last' = ReleaseResponse(req[p].sub, req[p].id)
       /\ caught' = {c \in caught : c.id # req[p].id}
       /\ Cardinality(caught') = Cardinality(caught) - 1
       /\ UNCHANGED <<users, pokemon, userSeq, pokemonSeq, caughtSeq>>
       /\ \A u \in users : \A row \in ListResponse(u.id)'.data : row.id # req[p].id

C21_IdsNotReused ==
  /\ caughtSeq' >= caughtSeq
  /\ \A c \in caught' : (\E o \in caught : o.id = c.id) \/ c.id > caughtSeq
  /\ (last'.op = "list" /\ last'.status = 200) =>
        \A row \in last'.data : \E c \in caught' : c.id = row.id

C21_IdsIssued == \A c \in caught : c.id >= 1 /\ c.id <= caughtSeq

C21_ReleaseFrame == [] C21_IdsIssued /\ [][C21_ReleaseStep /\ C21_IdsNotReused]_vars

\* one of two records was released and the other, of the same owner, is still there
C21_Witness ==
  /\ last.op = "release" /\ last.status = 200
  /\ last.arg \in 1 .. caughtSeq /\ \A c \in caught : c.id # last.arg
  /\ Cardinality(caught) = 1 /\ \A c \in caught : c.userId = last.sub
  /\ pokemon # {}

====
